---- MODULE Spec2Model ----
(***************************************************************************)
(* The three bottleneck-TSP searches of the repository, run on one input:  *)
(*   BFSHomework.py                     load_city_distances, bfs_tsp       *)
(*   Least_Cost__Uniform_cost__Search.py TSPSolver.__init__, solve         *)
(*   A_Search.py                         TSPSolver.__init__, heuristic,    *)
(*                                       solve                             *)
(* A city name is an integer; the order of the integers is the order       *)
(* Python gives the name strings ("A" < "B" < ...).  The three programs    *)
(* are independent; here they run one after the other on the same          *)
(* (cities, distance_matrix) so that their results can be compared.        *)
(* distances is the table of the program that is running: each program     *)
(* builds its own from the input before it searches.                       *)
(* Each program's record also keeps two history fields that the code does  *)
(* not have: popped, the <<path, max jump>> of the states removed from the *)
(* frontier so far, in order, and pushes, the number of states put on the  *)
(* frontier so far.                                                        *)
(***************************************************************************)
EXTENDS Integers, Sequences, FiniteSets, TLC

VARIABLES cities, distance_matrix, distances, bfs, ucs, astar

vars == <<cities, distance_matrix, distances, bfs, ucs, astar>>

(***************************************************************************)
(* Bounds of the enumerated inputs.                                        *)
(***************************************************************************)
MaxN == 3
MaxW == 2

\* sys.maxsize, the initial min_max_jump.  It is 2^63 - 1 on a 64-bit build,
\* beyond the integers TLC has; every weight of the model is far below both.
maxsize == 2147483647

\* Python's None as the value of best_path (a path is never empty).
None == <<>>

(***************************************************************************)
(* Helpers: Python built-ins used by the three files.                      *)
(***************************************************************************)
Range(s) == {s[i] : i \in DOMAIN s}

Max(a, b) == IF a >= b THEN a ELSE b

Last(s) == s[Len(s)]

\* list < list: the first differing element decides, a proper prefix is smaller.
ListLess(a, b) ==
    \E k \in 1..Len(b) :
        /\ k - 1 <= Len(a)
        /\ \A i \in 1..(k - 1) : a[i] = b[i]
        /\ (k > Len(a) \/ a[k] < b[k])

(***************************************************************************)
(* Inputs.  A matrix is a list of rows.  The enumerated matrices are the   *)
(* n x n matrices that hold one weight everywhere except in at most two    *)
(* cells off the diagonal (such a cell may hold -1), the matrices of one   *)
(* weight with a row or a column too few or too many, and the three        *)
(* example matrices of the __main__ blocks.  The city lists are the names  *)
(* in ascending and in descending order, and the empty list.               *)
(***************************************************************************)
Weights == 0..MaxW

Entries == -1..MaxW

Uniform(r, c, d) == [i \in 1..r |-> [j \in 1..c |-> d]]

Patch(m, p, v) == [m EXCEPT ![p[1]][p[2]] = v]

OffDiagonal(n) == {p \in (1..n) \X (1..n) : p[1] # p[2]}

SquareMatrices(n) ==
    {Uniform(n, n, d) : d \in Weights}
        \cup {Patch(Patch(Uniform(n, n, d), p, a), q, b) :
                 d \in Weights, p \in OffDiagonal(n), q \in OffDiagonal(n),
                 a \in Entries, b \in Entries}

OtherShapes(n) ==
    IF n = 0 THEN {}
    ELSE {Uniform(r, c, d) : r \in {n - 1, n, n + 1}, c \in {n - 1, n, n + 1},
                             d \in Weights}

CityLists(n) == {[i \in 1..n |-> i], [i \in 1..n |-> n + 1 - i]}

ExampleCities == <<1, 2, 3, 4>>

BfsExample ==
    << <<0, 1, 4, 5>>, <<1, 0, 2, 6>>, <<4, 2, 0, 3>>, <<5, 6, 3, 0>> >>

UcsExample ==
    << <<0, 10, 15, 20>>, <<10, 0, 35, 25>>, <<15, 35, 0, 30>>, <<20, 25, 30, 0>> >>

AStarExample ==
    << <<0, 10, 15, 20>>, <<10, 0, 35, 40>>, <<15, 35, 0, 30>>, <<20, 40, 30, 0>> >>

Inputs ==
    {<<c, m>> : c \in {ExampleCities}, m \in {BfsExample, UcsExample, AStarExample}}
        \cup UNION {CityLists(n) \X (SquareMatrices(n) \cup OtherShapes(n)) : n \in 0..MaxN}

(***************************************************************************)
(* load_city_distances: the dict (origin, destination) -> weight.          *)
(* distance_matrix[i][j] raises IndexError when row i or column j is       *)
(* missing; nothing else is checked.  A name that occurs twice keeps the   *)
(* entry written last.                                                     *)
(***************************************************************************)
LoadRaises(city_names, matrix) ==
    \E i \in 1..Len(city_names) :
        \/ i > Len(matrix)
        \/ \E j \in 1..Len(city_names) : j > Len(matrix[i])

LastIndex(city_names, name) ==
    CHOOSE i \in 1..Len(city_names) :
        /\ city_names[i] = name
        /\ \A k \in (i + 1)..Len(city_names) : city_names[k] # name

load_city_distances(city_names, matrix) ==
    [p \in Range(city_names) \X Range(city_names) |->
        matrix[LastIndex(city_names, p[1])][LastIndex(city_names, p[2])]]

(***************************************************************************)
(* BFSHomework.py: bfs_tsp.  A queue entry is                              *)
(* <<current city, path taken, max jump in path>>.                         *)
(***************************************************************************)
\* mutant of bfs_is_complete: the length test is forgotten
bfs_is_complete_no_length(path) == Last(path) = path[1]

\* mutant of bfs_is_complete: the length is compared with len(cities)
bfs_is_complete_short(path) == Len(path) = Len(cities) /\ Last(path) = path[1]

bfs_is_complete(path) ==
    Len(path) = Len(cities) + 1 /\ Last(path) = path[1]

\* mutant of bfs_improves: a tie replaces the record as well
bfs_improves_on_ties(max_jump, min_max_jump) == max_jump <= min_max_jump

\* mutant of bfs_improves: only the first complete path is recorded
bfs_improves_first_only(max_jump, min_max_jump) == min_max_jump = maxsize

bfs_improves(max_jump, min_max_jump) == max_jump < min_max_jump

bfs_may_visit(next_city, path) ==
    \/ next_city \notin Range(path)
    \/ (next_city = path[1] /\ Cardinality(Range(path)) = Len(cities))

\* mutant of bfs_not_too_early: the test of the visited cities is dropped
bfs_never_returns(next_city, path) == ~(next_city = path[1])

bfs_not_too_early(next_city, path) ==
    ~(next_city = path[1] /\ Cardinality(Range(path)) < Len(cities))

\* mutant of bfs_new_max_jump: the last jump replaces the maximum
bfs_last_jump(max_jump, new_jump) == new_jump

bfs_new_max_jump(max_jump, new_jump) == Max(max_jump, new_jump)

bfs_successors(current_city, path, max_jump) ==
    LET next == SelectSeq(cities, LAMBDA next_city :
                    bfs_may_visit(next_city, path) /\ bfs_not_too_early(next_city, path))
    IN  [k \in 1..Len(next) |->
            <<next[k], Append(path, next[k]),
              bfs_new_max_jump(max_jump, distances[<<current_city, next[k]>>])>>]

\* mutant of bfs_queue_empty: the loop also ends once a tour is recorded
bfs_stops_at_first_goal == bfs.queue = <<>> \/ bfs.best_path # None

bfs_queue_empty == bfs.queue = <<>>

Final(pc) == pc \in {"done", "IndexError"}

\* __main__: distances = load_city_distances(city_names, distance_matrix)
BfsLoad ==
    /\ bfs.pc = "start"
    /\ IF LoadRaises(cities, distance_matrix)
       THEN bfs' = [bfs EXCEPT !.pc = "IndexError"] /\ UNCHANGED distances
       ELSE /\ bfs' = [bfs EXCEPT !.pc = "loaded"]
            /\ distances' = load_city_distances(cities, distance_matrix)
    /\ UNCHANGED <<cities, distance_matrix, ucs, astar>>

\* bfs_tsp, lines 20-22: cities[0] raises IndexError on an empty list.
BfsSeed ==
    /\ bfs.pc = "loaded"
    /\ bfs' = IF cities = <<>>
              THEN [bfs EXCEPT !.pc = "IndexError"]
              ELSE [bfs EXCEPT !.pc = "loop",
                               !.queue = << <<cities[1], <<cities[1]>>, 0>> >>,
                               !.best_path = None,
                               !.min_max_jump = maxsize,
                               !.pushes = 1]
    /\ UNCHANGED <<cities, distance_matrix, distances, ucs, astar>>

\* One iteration of "while queue:".
BfsStep ==
    /\ bfs.pc = "loop"
    /\ ~bfs_queue_empty
    /\ LET current_city == Head(bfs.queue)[1]
           path == Head(bfs.queue)[2]
           max_jump == Head(bfs.queue)[3]
           log == Append(bfs.popped, <<path, max_jump>>)
       IN  IF bfs_is_complete(path)
           THEN bfs' = IF bfs_improves(max_jump, bfs.min_max_jump)
                       THEN [bfs EXCEPT !.queue = Tail(@), !.best_path = path,
                                        !.min_max_jump = max_jump, !.popped = log]
                       ELSE [bfs EXCEPT !.queue = Tail(@), !.popped = log]
           ELSE \E new \in {bfs_successors(current_city, path, max_jump)} :
                    bfs' = [bfs EXCEPT !.queue = Tail(@) \o new, !.popped = log,
                                      !.pushes = @ + Len(new)]
    /\ UNCHANGED <<cities, distance_matrix, distances, ucs, astar>>

\* The loop ends and (best_path, min_max_jump) is returned.
BfsReturn ==
    /\ bfs.pc = "loop"
    /\ bfs_queue_empty
    /\ bfs' = [bfs EXCEPT !.pc = "done"]
    /\ UNCHANGED <<cities, distance_matrix, distances, ucs, astar>>

(***************************************************************************)
(* heapq: the frontier of the two priority searches is a heap of tuples.   *)
(* heappop removes the smallest tuple; tuples compare element by element,  *)
(* the paths as lists.  The paths of one run are pairwise different, so    *)
(* the heap is modelled by the set of its tuples.                          *)
(***************************************************************************)
\* mutant of TupleLess: of two tuples with equal keys the later path is smaller
TupleLess_later_path(x, y) ==
    \/ x[1] < y[1]
    \/ (x[1] = y[1] /\ ListLess(y[2], x[2]))
    \/ (x[1] = y[1] /\ x[2] = y[2] /\ Len(x) >= 3 /\ x[3] < y[3])

TupleLess(x, y) ==
    \/ x[1] < y[1]
    \/ (x[1] = y[1] /\ ListLess(x[2], y[2]))
    \/ (x[1] = y[1] /\ x[2] = y[2] /\ Len(x) >= 3 /\ x[3] < y[3])

heappop(heap) == CHOOSE x \in heap : \A y \in heap \ {x} : TupleLess(x, y)

(***************************************************************************)
(* Least_Cost__Uniform_cost__Search.py: TSPSolver.  A frontier entry is    *)
(* <<max jump in path, current path>>.                                     *)
(***************************************************************************)
ucs_is_complete(path) ==
    /\ Len(path) > 1 /\ Last(path) = cities[1]
    /\ Cardinality(Range(SubSeq(path, 1, Len(path) - 1))) = Len(cities)

\* mutant of ucs_improves: a tie replaces the record as well
ucs_improves_on_ties(max_jump, min_max_jump) == max_jump <= min_max_jump

ucs_improves(max_jump, min_max_jump) == max_jump < min_max_jump

\* mutant of ucs_may_visit: the return to the first city is forgotten
ucs_may_visit_once(next_city, path) == next_city \notin Range(path)

ucs_may_visit(next_city, path) ==
    \/ next_city \notin Range(path)
    \/ (next_city = cities[1] /\ Cardinality(Range(path)) = Len(cities))

ucs_not_too_early(next_city, path) ==
    ~(next_city = cities[1] /\ Cardinality(Range(path)) < Len(cities))

\* mutant of ucs_new_max_jump: the last jump replaces the maximum
ucs_last_jump(max_jump, new_jump) == new_jump

\* mutant of ucs_new_max_jump: the jumps are summed, as for a tour length
ucs_sum_jump(max_jump, new_jump) == max_jump + new_jump

ucs_new_max_jump(max_jump, new_jump) == Max(max_jump, new_jump)

ucs_successors(max_jump, path) ==
    LET current_city == Last(path)
    IN  {<<ucs_new_max_jump(max_jump, distances[<<current_city, next_city>>]),
           Append(path, next_city)>> :
            next_city \in {c \in Range(cities) :
                              ucs_may_visit(c, path) /\ ucs_not_too_early(c, path)}}

ucs_frontier_empty == ucs.frontier = {}

\* TSPSolver.__init__: self.distances = self._load_city_distances(...)
UcsInit ==
    /\ Final(bfs.pc)
    /\ ucs.pc = "start"
    /\ IF LoadRaises(cities, distance_matrix)
       THEN ucs' = [ucs EXCEPT !.pc = "IndexError"] /\ UNCHANGED distances
       ELSE /\ ucs' = [ucs EXCEPT !.pc = "loaded"]
            /\ distances' = load_city_distances(cities, distance_matrix)
    /\ UNCHANGED <<cities, distance_matrix, bfs, astar>>

\* solve, lines 48-52: self.cities[0] raises IndexError on an empty list.
UcsSeed ==
    /\ ucs.pc = "loaded"
    /\ ucs' = IF cities = <<>>
              THEN [ucs EXCEPT !.pc = "IndexError"]
              ELSE [ucs EXCEPT !.pc = "loop",
                               !.frontier = {<<0, <<cities[1]>> >>},
                               !.best_path = None,
                               !.min_max_jump = maxsize,
                               !.pushes = 1]
    /\ UNCHANGED <<cities, distance_matrix, distances, bfs, astar>>

\* One iteration of "while frontier:".
UcsStep ==
    /\ ucs.pc = "loop"
    /\ ~ucs_frontier_empty
    /\ \E popped \in {heappop(ucs.frontier)} :
       LET max_jump == popped[1]
           path == popped[2]
           rest == ucs.frontier \ {popped}
           log == Append(ucs.popped, <<path, max_jump>>)
       IN  IF ucs_is_complete(path)
           THEN ucs' = IF ucs_improves(max_jump, ucs.min_max_jump)
                       THEN [ucs EXCEPT !.frontier = rest, !.best_path = path,
                                        !.min_max_jump = max_jump, !.popped = log]
                       ELSE [ucs EXCEPT !.frontier = rest, !.popped = log]
           ELSE \E new \in {ucs_successors(max_jump, path)} :
                    ucs' = [ucs EXCEPT !.frontier = rest \cup new, !.popped = log,
                                      !.pushes = @ + Cardinality(new)]
    /\ UNCHANGED <<cities, distance_matrix, distances, bfs, astar>>

UcsReturn ==
    /\ ucs.pc = "loop"
    /\ ucs_frontier_empty
    /\ ucs' = [ucs EXCEPT !.pc = "done"]
    /\ UNCHANGED <<cities, distance_matrix, distances, bfs, astar>>

(***************************************************************************)
(* A_Search.py: TSPSolver.  An open_set entry is <<cost, path, max_jump>>. *)
(***************************************************************************)
MinOf(S) == CHOOSE m \in S : \A x \in S : m <= x

\* mutant of heuristic: the largest distance instead of the smallest
heuristic_max(remaining_cities, current_city) ==
    LET dists == {distances[<<current_city, city>>] :
                     city \in Range(remaining_cities) \ {current_city}}
    IN  IF dists = {} THEN 0 ELSE CHOOSE m \in dists : \A x \in dists : x <= m

\* min([...], default=0) over the cities of remaining_cities other than
\* current_city
heuristic(remaining_cities, current_city) ==
    LET dists == {distances[<<current_city, city>>] :
                     city \in Range(remaining_cities) \ {current_city}}
    IN  IF dists = {} THEN 0 ELSE MinOf(dists)

astar_is_complete(path) ==
    Len(path) = Len(cities) + 1 /\ Last(path) = path[1]

astar_improves(max_jump, min_max_jump) == max_jump < min_max_jump

\* mutant of astar_remaining_cities: the first city is a candidate at once
astar_remaining_cities_early(path) ==
    SelectSeq(cities, LAMBDA city : city \notin Range(path) \/ city = path[1])

astar_remaining_cities(path) ==
    SelectSeq(cities, LAMBDA city :
        \/ city \notin Range(path)
        \/ (city = path[1] /\ Cardinality(Range(path)) = Len(cities)))

\* mutant of astar_new_max_jump: the last jump replaces the maximum
astar_last_jump(max_jump, new_jump) == new_jump

astar_new_max_jump(max_jump, new_jump) == Max(max_jump, new_jump)

astar_estimated_cost(cost, new_jump, h) == cost + new_jump + h

astar_successors(cost, path, max_jump) ==
    LET current_city == Last(path)
        remaining_cities == astar_remaining_cities(path)
    IN  {LET new_jump == distances[<<current_city, next_city>>]
         IN  <<astar_estimated_cost(cost, new_jump,
                                    heuristic(remaining_cities, next_city)),
               Append(path, next_city),
               astar_new_max_jump(max_jump, new_jump)>> :
            next_city \in Range(remaining_cities)}

astar_open_set_empty == astar.open_set = {}

\* TSPSolver.__init__: self.distances = self.load_city_distances(...)
AStarInit ==
    /\ Final(ucs.pc)
    /\ astar.pc = "start"
    /\ IF LoadRaises(cities, distance_matrix)
       THEN astar' = [astar EXCEPT !.pc = "IndexError"] /\ UNCHANGED distances
       ELSE /\ astar' = [astar EXCEPT !.pc = "loaded"]
            /\ distances' = load_city_distances(cities, distance_matrix)
    /\ UNCHANGED <<cities, distance_matrix, bfs, ucs>>

\* solve, lines 62-65: self.cities[0] raises IndexError on an empty list.
AStarSeed ==
    /\ astar.pc = "loaded"
    /\ astar' = IF cities = <<>>
                THEN [astar EXCEPT !.pc = "IndexError"]
                ELSE [astar EXCEPT !.pc = "loop",
                                   !.open_set = {<<0, <<cities[1]>>, 0>>},
                                   !.best_path = None,
                                   !.min_max_jump = maxsize,
                                   !.pushes = 1]
    /\ UNCHANGED <<cities, distance_matrix, distances, bfs, ucs>>

\* One iteration of "while open_set:".
AStarStep ==
    /\ astar.pc = "loop"
    /\ ~astar_open_set_empty
    /\ \E popped \in {heappop(astar.open_set)} :
       LET cost == popped[1]
           path == popped[2]
           max_jump == popped[3]
           rest == astar.open_set \ {popped}
           log == Append(astar.popped, <<path, max_jump>>)
       IN  IF astar_is_complete(path)
           THEN astar' = IF astar_improves(max_jump, astar.min_max_jump)
                         THEN [astar EXCEPT !.open_set = rest, !.best_path = path,
                                            !.min_max_jump = max_jump, !.popped = log]
                         ELSE [astar EXCEPT !.open_set = rest, !.popped = log]
           ELSE \E new \in {astar_successors(cost, path, max_jump)} :
                    astar' = [astar EXCEPT !.open_set = rest \cup new, !.popped = log,
                                          !.pushes = @ + Cardinality(new)]
    /\ UNCHANGED <<cities, distance_matrix, distances, bfs, ucs>>

AStarReturn ==
    /\ astar.pc = "loop"
    /\ astar_open_set_empty
    /\ astar' = [astar EXCEPT !.pc = "done"]
    /\ UNCHANGED <<cities, distance_matrix, distances, bfs, ucs>>

Init ==
    /\ \E input \in Inputs : cities = input[1] /\ distance_matrix = input[2]
    /\ distances = <<>>
    /\ bfs = [pc |-> "start", queue |-> <<>>,
              best_path |-> None, min_max_jump |-> maxsize,
              popped |-> <<>>, pushes |-> 0]
    /\ ucs = [pc |-> "start", frontier |-> {},
              best_path |-> None, min_max_jump |-> maxsize,
              popped |-> <<>>, pushes |-> 0]
    /\ astar = [pc |-> "start", open_set |-> {},
                best_path |-> None, min_max_jump |-> maxsize,
                popped |-> <<>>, pushes |-> 0]

Next ==
    \/ BfsLoad \/ BfsSeed \/ BfsStep \/ BfsReturn
    \/ UcsInit \/ UcsSeed \/ UcsStep \/ UcsReturn
    \/ AStarInit \/ AStarSeed \/ AStarStep \/ AStarReturn

Spec == Init /\ [][Next]_vars

\* The loops are sequential code: a program that can take a step takes it.
FairSpec == Spec /\ WF_vars(Next)

(***************************************************************************)
(* Vocabulary of the properties.  The weights are read from the input      *)
(* matrix, not from the tables the programs built.                         *)
(***************************************************************************)
n == Len(cities)

IndexOf(city) == CHOOSE i \in 1..n : cities[i] = city

Weight(a, b) == distance_matrix[IndexOf(a)][IndexOf(b)]

MaxOf(S) == CHOOSE m \in S : \A x \in S : x <= m

\* the maximum weight over the consecutive pairs of a sequence of >= 2 cities
Bottleneck(seq) == MaxOf({Weight(seq[i], seq[i + 1]) : i \in 1..(Len(seq) - 1)})

\* the Hamiltonian cycles that start and end at cities[1]
Tours ==
    {t \in [1..(n + 1) -> Range(cities)] :
        /\ t[1] = cities[1] /\ t[n + 1] = cities[1]
        /\ {t[i] : i \in 1..n} = Range(cities)}

IsSquare(matrix) == \A i \in 1..Len(matrix) : Len(matrix[i]) = Len(matrix)

NonNegative(matrix) ==
    \A i \in 1..Len(matrix) : \A j \in 1..Len(matrix[i]) : matrix[i][j] >= 0

\* the matrix is not n x n, or holds a negative weight
Malformed ==
    \/ Len(distance_matrix) # n
    \/ \E i \in 1..Len(distance_matrix) : Len(distance_matrix[i]) # n
    \/ ~NonNegative(distance_matrix)

AllDone == bfs.pc = "done" /\ ucs.pc = "done" /\ astar.pc = "done"

Programs == <<bfs, ucs, astar>>

\* C1: on n >= 1 cities and a square matrix of non-negative weights, the
\* bottleneck each of the three searches returns is at most the bottleneck of
\* every Hamiltonian cycle from cities[1] back to cities[1].
C1_Optimality ==
    (AllDone /\ n >= 1 /\ IsSquare(distance_matrix) /\ NonNegative(distance_matrix))
        => \A k \in 1..3 : \A t \in Tours : Programs[k].min_max_jump <= Bottleneck(t)

\* C1 witness: the searches have returned on three or more cities whose tours
\* have different bottlenecks, and the first tour of the list order is not
\* the best one.
C1_Witness ==
    /\ AllDone /\ n >= 3 /\ IsSquare(distance_matrix) /\ NonNegative(distance_matrix)
    /\ \E t \in Tours : bfs.min_max_jump < Bottleneck(t)
    /\ bfs.min_max_jump < Bottleneck(cities \o <<cities[1]>>)

\* C2: run on the same cities and matrix, the three searches return the same
\* bottleneck.
C2_SameBottleneck ==
    AllDone => /\ bfs.min_max_jump = ucs.min_max_jump
               /\ ucs.min_max_jump = astar.min_max_jump

\* C2 witness: the three have returned, with different tours of the same
\* bottleneck.
C2_Witness ==
    /\ AllDone /\ n >= 3 /\ ~Malformed
    /\ bfs.best_path # ucs.best_path
    /\ bfs.min_max_jump = ucs.min_max_jump
    /\ ucs.min_max_jump = astar.min_max_jump
    /\ bfs.min_max_jump > 0

\* the shape of a returned sequence
IsTour(path) ==
    /\ path # None
    /\ Len(path) = n + 1
    /\ path[1] = cities[1] /\ path[Len(path)] = cities[1]
    /\ \A c \in Range(cities) : Cardinality({i \in 1..n : path[i] = c}) = 1

\* C3: on n >= 2 cities the sequence a search returns is not None, has n + 1
\* entries, starts and ends at cities[1] and holds every city exactly once in
\* its first n entries.
C3_ResultShape ==
    n >= 2 => \A k \in 1..3 : Programs[k].pc = "done" => IsTour(Programs[k].best_path)

\* C3 witness: the three searches have returned tours of three or more cities.
C3_Witness ==
    AllDone /\ n >= 3 /\ \A k \in 1..3 : IsTour(Programs[k].best_path)

\* C4: the maximum weight over the consecutive pairs of a returned sequence
\* equals the returned bottleneck.
C4_RoundTrip ==
    \A k \in 1..3 :
        (Programs[k].pc = "done" /\ Programs[k].best_path # None)
            => Bottleneck(Programs[k].best_path) = Programs[k].min_max_jump

\* C5: once in its loop a search empties its frontier and returns, and it has
\* returned only with the frontier empty.
C5_ExhaustsFrontier ==
    /\ (bfs.pc = "loop") ~> (bfs.pc = "done")
    /\ (ucs.pc = "loop") ~> (ucs.pc = "done")
    /\ (astar.pc = "loop") ~> (astar.pc = "done")
    /\ [](/\ bfs.pc = "done" => bfs.queue = <<>>
          /\ ucs.pc = "done" => ucs.frontier = {}
          /\ astar.pc = "done" => astar.open_set = {})

\* C5 witness: a search has recorded a tour and is still in its loop with
\* states left in the frontier.
C5_Witness ==
    /\ bfs.pc = "loop" /\ bfs.best_path # None /\ bfs.queue # <<>>
    /\ n >= 3

\* C6: with a matrix that is not n x n or holds a negative weight, building
\* the table fails: no program gets a table or takes a search step.
C6_MalformedRejected ==
    Malformed => \A k \in 1..3 : Programs[k].pc \in {"start", "IndexError"}

\* C7: on the empty city list each search returns the absent result (None
\* with the initial bottleneck, or an empty tour) and does not raise.
C7_EmptyReturnsTrivial ==
    (cities = <<>> /\ distance_matrix = <<>>) =>
        \A k \in 1..3 : /\ Programs[k].pc # "IndexError"
                        /\ Programs[k].pc = "done" => Programs[k].best_path = None

\* C8: on one city and a 1 x 1 matrix of a non-negative weight each search
\* returns bottleneck 0 with the sequence [loc, loc] or [loc].
C8_SingleCityZero ==
    (n = 1 /\ Len(distance_matrix) = 1 /\ IsSquare(distance_matrix)
           /\ NonNegative(distance_matrix))
        => \A k \in 1..3 :
               Programs[k].pc = "done"
                   => /\ Programs[k].min_max_jump = 0
                      /\ Programs[k].best_path
                             \in {<<cities[1], cities[1]>>, <<cities[1]>>}

OnAStarExample == cities = ExampleCities /\ distance_matrix = AStarExample

\* C9 as stated: on the example of A_Search.py every search returns 30.
C9_ExampleReturns30 ==
    OnAStarExample => \A k \in 1..3 : Programs[k].pc = "done"
                                          => Programs[k].min_max_jump = 30

\* C9, amended: on the example of A_Search.py every search returns 35, the
\* smallest bottleneck of a tour of that matrix.
C9_ExampleReturns35 ==
    OnAStarExample => \A k \in 1..3 : Programs[k].pc = "done"
                                          => /\ Programs[k].min_max_jump = 35
                                             /\ \A t \in Tours : Bottleneck(t) >= 35

\* C9 witness: the three searches have returned on that example.
C9_Witness == OnAStarExample /\ AllDone

\* the sum of the weights over the consecutive pairs of a sequence
RECURSIVE SumEdges(_)
SumEdges(seq) ==
    IF Len(seq) < 2 THEN 0 ELSE Weight(seq[1], seq[2]) + SumEdges(Tail(seq))

\* C10: the key of every state pushed on open_set is g + h, g the sum of the
\* weights along its path and h the heuristic from its last city over the
\* remaining_cities of the expansion that pushed it.  Stated for the n x n
\* matrices of non-negative weights.
C10_KeyIsGPlusH ==
    (astar.pc = "loop" /\ ~Malformed) =>
        \A e \in astar.open_set :
            Len(e[2]) >= 2 =>
                e[1] = SumEdges(e[2])
                         + heuristic(astar_remaining_cities(SubSeq(e[2], 1, Len(e[2]) - 1)),
                                     Last(e[2]))

(***************************************************************************)
(* Vocabulary of the properties of the search states.  A state is a path   *)
(* with its recorded bottleneck; its parent is the path without its last   *)
(* city.                                                                   *)
(***************************************************************************)
Parent(path) == SubSeq(path, 1, Len(path) - 1)

\* all cities visited, and back at the first one
CompleteState(path) ==
    /\ Len(path) = n + 1
    /\ path[1] = cities[1] /\ path[Len(path)] = cities[1]
    /\ {path[i] : i \in 1..n} = Range(cities)

\* the cities a path may be extended by: a city not yet on it, or the first
\* city once every city is on it
Candidates(path) ==
    IF CompleteState(path) THEN {}
    ELSE {c \in Range(cities) :
             \/ c \notin Range(path)
             \/ (c = cities[1] /\ Range(path) = Range(cities))}

RECURSIVE Perms(_)
Perms(S) ==
    IF S = {} THEN {<<>>}
    ELSE UNION {{<<x>> \o p : p \in Perms(S \ {x})} : x \in S}

\* the ways to finish a path to a full tour, each from the path's last city on
Completions(path) ==
    IF CompleteState(path) THEN {}
    ELSE {<<Last(path)>> \o p \o <<cities[1]>> :
             p \in Perms(Range(cities) \ Range(path))}

\* the paths on the three frontiers
BfsPaths == {bfs.queue[i][2] : i \in DOMAIN bfs.queue}

UcsPaths == {e[2] : e \in ucs.frontier}

AStarPaths == {e[2] : e \in astar.open_set}

\* the value line 82 of A_Search.py computed when it enqueued the path
ComputedHeuristic(path) ==
    heuristic(astar_remaining_cities(Parent(path)), Last(path))

\* the heuristic values of the states on the open_set are lower bounds
HeuristicAdmissible ==
    (astar.pc = "loop" /\ NonNegative(distance_matrix)) =>
        \A path \in AStarPaths :
            Len(path) >= 2 =>
                LET h == ComputedHeuristic(path)
                    others == Candidates(Parent(path)) \ {Last(path)}
                IN  /\ others = {} => h = 0
                    /\ others # {} =>
                           /\ \E c \in others : h = Weight(Last(path), c)
                           /\ \A c \in others : h <= Weight(Last(path), c)
                    /\ \A c \in Candidates(path) : h <= Weight(Last(path), c)
                    /\ \A t \in Completions(path) : h <= Bottleneck(t)

\* C11: with non-negative weights, the heuristic value computed for a state
\* the A* search enqueued is the smallest weight from the state's last city
\* to the other candidates of its parent (0 if there are none), is at most
\* the weight of every edge that can be taken next from the state, and is at
\* most the largest weight of every completion of the state to a full tour.
C11_Admissible == []HeuristicAdmissible

\* C11 witness: an enqueued state whose heuristic value is positive and
\* below the largest weight of one of its completions.
C11_Witness ==
    /\ astar.pc = "loop" /\ ~Malformed
    /\ \E path \in AStarPaths :
           /\ Len(path) >= 2
           /\ ComputedHeuristic(path) > 0
           /\ \E t \in Completions(path) : ComputedHeuristic(path) < Bottleneck(t)

\* the <<path, recorded bottleneck>> of the states on the three frontiers
BfsStates == {<<bfs.queue[i][2], bfs.queue[i][3]>> : i \in DOMAIN bfs.queue}

UcsStates == {<<e[2], e[1]>> : e \in ucs.frontier}

AStarStates == {<<e[2], e[3]>> : e \in astar.open_set}

FrontierStates == BfsStates \cup UcsStates \cup AStarStates

\* the states on the frontiers record the bottleneck of their paths
FrontierBottleneck ==
    NonNegative(distance_matrix) =>
        \A s \in FrontierStates :
            /\ Len(s[1]) >= 1
            /\ s[1][1] = cities[1]
            /\ s[2] = IF Len(s[1]) = 1 THEN 0 ELSE Bottleneck(s[1])

\* C12: with non-negative weights, every state on the frontier of each of
\* the three searches has a non-empty path that starts at cities[1], and its
\* recorded bottleneck is the largest weight over the consecutive pairs of
\* the path (0 for the one-city seed).
C12_FrontierBottleneck == []FrontierBottleneck

\* C12 witness: each frontier has held a state of three or more cities whose
\* recorded bottleneck is above the weight of its last edge.
C12_Witness ==
    /\ ~Malformed
    /\ astar.pc = "loop"
    /\ \E s \in AStarStates :
           /\ Len(s[1]) >= 3
           /\ s[2] > Weight(s[1][Len(s[1]) - 1], Last(s[1]))
    /\ \E k \in DOMAIN bfs.popped :
           /\ Len(bfs.popped[k][1]) >= 3
           /\ bfs.popped[k][2] > Weight(bfs.popped[k][1][Len(bfs.popped[k][1]) - 1],
                                        Last(bfs.popped[k][1]))
    /\ \E k \in DOMAIN ucs.popped :
           /\ Len(ucs.popped[k][1]) >= 3
           /\ ucs.popped[k][2] > Weight(ucs.popped[k][1][Len(ucs.popped[k][1]) - 1],
                                        Last(ucs.popped[k][1]))

FrontierPaths == BfsPaths \cup UcsPaths \cup AStarPaths

\* the paths on the frontiers return to cities[1] only at their end
NoPrematureReturn ==
    \A path \in FrontierPaths :
        /\ Len(path) >= 2 =>
               \/ Last(path) \notin Range(Parent(path))
               \/ (Last(path) = cities[1] /\ Range(Parent(path)) = Range(cities))
        /\ \A i, j \in 1..Len(path) :
               (i < j /\ path[i] = path[j]) =>
                   /\ i = 1 /\ j = Len(path) /\ Len(path) = n + 1
                   /\ path[i] = cities[1]

\* C13: in each of the three searches, the last city of every enqueued path
\* is a city that is not on the path's parent, or is cities[1] with every
\* city on the parent; so a city occurs twice on a frontier path only as
\* cities[1] at both ends of a path of length n + 1.
C13_NoPrematureReturn == []NoPrematureReturn

\* C13 witness: on three or more cities, a frontier holds a path closed by
\* the return to cities[1] next to a path that has not visited every city.
C13_Witness ==
    /\ n >= 3
    /\ \E path \in FrontierPaths :
           Len(path) = n + 1 /\ Last(path) = cities[1] /\ path[1] = cities[1]
    /\ \E path \in FrontierPaths : Len(path) < n

\* the positions in a pop log that hold complete states
Goals(program) == {i \in DOMAIN program.popped : CompleteState(program.popped[i][1])}

\* the paths of the states a program has removed from its frontier
PoppedPaths(program) == {program.popped[k][1] : k \in DOMAIN program.popped}

Frontier(k) == <<BfsPaths, UcsPaths, AStarPaths>>[k]

\* complete states are not extended and not enqueued again
GoalsTerminal ==
    \A k \in 1..3 :
        Programs[k].pc = "loop" =>
            /\ \A path \in Frontier(k) : Len(path) <= n + 1
            /\ \A i \in Goals(Programs[k]) :
                   /\ Programs[k].popped[i][1] \notin Frontier(k)
                   /\ \A j \in Goals(Programs[k]) :
                          Programs[k].popped[j][1] = Programs[k].popped[i][1] => j = i

\* C14: while each of the three searches runs, no successor of a complete
\* state is enqueued: no frontier path is longer than n + 1 (a complete path
\* has n + 1 cities), and a complete path that was popped is neither on the
\* frontier again nor popped a second time.
C14_GoalsTerminal == []GoalsTerminal

\* C14 witness: a search on three or more cities has popped a complete state
\* and still has states on its frontier.
C14_Witness ==
    /\ n >= 3
    /\ \E k \in 1..3 :
           /\ \E path \in PoppedPaths(Programs[k]) : CompleteState(path)
           /\ \E path \in Frontier(k) : ~CompleteState(path)

MinBottleneck(program) == MinOf({program.popped[i][2] : i \in Goals(program)})

\* the first complete state of a pop log that has the smallest bottleneck
FirstBest(program) ==
    program.popped[MinOf({i \in Goals(program) :
                             program.popped[i][2] = MinBottleneck(program)})]

\* while a search is in its loop, its record is the one of its pop log
RecordTracksPopped ==
    \A k \in 1..3 :
        Programs[k].pc = "loop" =>
            IF Goals(Programs[k]) = {}
            THEN Programs[k].best_path = None /\ Programs[k].min_max_jump = maxsize
            ELSE /\ Programs[k].min_max_jump = MinBottleneck(Programs[k])
                 /\ Programs[k].best_path = FirstBest(Programs[k])[1]

RecordChange(old, new) ==
    /\ new.min_max_jump <= old.min_max_jump
    /\ (new.best_path # old.best_path \/ new.min_max_jump # old.min_max_jump) =>
           /\ Len(new.popped) = Len(old.popped) + 1
           /\ CompleteState(Last(new.popped)[1])
           /\ Last(new.popped)[2] < old.min_max_jump
           /\ new.best_path = Last(new.popped)[1]
           /\ new.min_max_jump = Last(new.popped)[2]

\* C15: in each of the three searches the record (best_path, min_max_jump)
\* changes only in a step that pops a complete state whose bottleneck is
\* strictly below the recorded one; the recorded bottleneck never increases,
\* it is always the smallest bottleneck of the complete states popped so far
\* (the sentinel if there are none), and of several complete states with
\* that bottleneck the record keeps the one popped first.
C15_RecordMonotone ==
    /\ []RecordTracksPopped
    /\ [][/\ RecordChange(bfs, bfs')
          /\ RecordChange(ucs, ucs')
          /\ RecordChange(astar, astar')]_vars

\* C15 witness: the breadth-first search has popped a complete state and,
\* later, one with a strictly smaller bottleneck, which is now the record.
C15_Witness ==
    /\ ~Malformed
    /\ \E i, j \in Goals(bfs) :
           /\ i < j
           /\ bfs.popped[j][2] < bfs.popped[i][2]
           /\ bfs.best_path = bfs.popped[j][1]
           /\ bfs.min_max_jump = bfs.popped[j][2]

\* a comes before b as Python orders lists: the first position at which they
\* differ decides; if there is none the shorter one is first
PathBefore(a, b) ==
    LET m == IF Len(a) <= Len(b) THEN Len(a) ELSE Len(b)
        differ == {i \in 1..m : a[i] # b[i]}
    IN  IF differ = {} THEN Len(a) < Len(b)
        ELSE a[MinOf(differ)] < b[MinOf(differ)]

\* a step of the uniform-cost search that removes a state removes one that
\* is first on the frontier by (bottleneck, path)
UcsPopsSmallest(old, new) ==
    Len(new.popped) = Len(old.popped) + 1 =>
        LET path == Last(new.popped)[1]
            max_jump == Last(new.popped)[2]
        IN  /\ <<max_jump, path>> \in old.frontier
            /\ <<max_jump, path>> \notin new.frontier
            /\ \A e \in old.frontier :
                   /\ max_jump <= e[1]
                   /\ max_jump = e[1] => (path = e[2] \/ PathBefore(path, e[2]))

\* C16: every state the uniform-cost search removes from its frontier has the
\* smallest bottleneck of the states then on the frontier, and of the states
\* with that bottleneck it is the one whose path compares smallest.
C16_UcsPopOrder == [][UcsPopsSmallest(ucs, ucs')]_vars

\* C16 witness: the uniform-cost search has just removed a state while the
\* frontier held another state of the same bottleneck and one of a larger
\* bottleneck (neither is a successor of the removed state).
C16_Witness ==
    /\ ucs.pc = "loop" /\ ~Malformed
    /\ Len(ucs.popped) >= 2
    /\ \E e \in ucs.frontier :
           /\ Parent(e[2]) # Last(ucs.popped)[1]
           /\ e[1] = Last(ucs.popped)[2]
           /\ PathBefore(Last(ucs.popped)[1], e[2])
    /\ \E e \in ucs.frontier :
           /\ Parent(e[2]) # Last(ucs.popped)[1]
           /\ e[1] > Last(ucs.popped)[2]

\* the set of <<path, bottleneck>> states a program has removed from its frontier
PoppedStates(program) == Range(program.popped)

\* C17: run to the end on the same cities and matrix, the breadth-first, the
\* uniform-cost and the A* search have popped the same set of
\* <<path, bottleneck>> states.
C17_SameStateSpace ==
    AllDone => /\ PoppedStates(bfs) = PoppedStates(ucs)
               /\ PoppedStates(ucs) = PoppedStates(astar)

\* C17 witness: the three searches have returned on three or more cities
\* after popping their states in three different orders.
C17_Witness ==
    /\ AllDone /\ n >= 3 /\ ~Malformed
    /\ bfs.popped # ucs.popped
    /\ ucs.popped # astar.popped
    /\ bfs.popped # astar.popped
    /\ Cardinality(PoppedStates(bfs)) > n + 1

\* the bottlenecks of the pop log of the uniform-cost search never decrease
UcsKeysSorted ==
    \A i \in 1..(Len(ucs.popped) - 1) : ucs.popped[i][2] <= ucs.popped[i + 1][2]

\* the first complete state of the log is at least as good as every complete
\* state popped and, with non-negative weights, as every tour of the input
UcsFirstGoalOptimal ==
    Goals(ucs) # {} =>
        LET first == ucs.popped[MinOf(Goals(ucs))]
        IN  /\ \A i \in Goals(ucs) : first[2] <= ucs.popped[i][2]
            /\ ucs.min_max_jump = first[2]
            /\ ucs.best_path = first[1]
            /\ NonNegative(distance_matrix) =>
                   \A t \in Completions(<<cities[1]>>) : first[2] <= Bottleneck(t)

\* C18: in the uniform-cost search the bottlenecks of the states popped one
\* after the other never decrease, so the first complete state popped has the
\* optimal bottleneck; the record is assigned by the time the search returns
\* (n >= 1) and, once assigned, it is never assigned again.
C18_UcsMonotoneKeys ==
    /\ []((ucs.pc = "loop") => (UcsKeysSorted /\ UcsFirstGoalOptimal))
    /\ []((ucs.pc = "done" /\ n >= 1) => ucs.best_path # None)
    /\ [][ucs.best_path # None =>
              /\ ucs.best_path' = ucs.best_path
              /\ ucs.min_max_jump' = ucs.min_max_jump]_vars

\* C18 witness: the uniform-cost search has popped complete states of
\* different bottlenecks on three or more cities, after states of smaller
\* bottlenecks.
C18_Witness ==
    /\ ucs.pc = "loop" /\ n >= 3 /\ ~Malformed
    /\ \E i, j \in Goals(ucs) : ucs.popped[i][2] < ucs.popped[j][2]
    /\ ucs.popped[2][2] < ucs.popped[MinOf(Goals(ucs))][2]

RECURSIVE Factorial(_)
Factorial(k) == IF k <= 0 THEN 1 ELSE k * Factorial(k - 1)

\* every push of a program so far put a path on the frontier that was not
\* pushed before, and no path was popped twice
PushedOnce(k) ==
    /\ Programs[k].pushes = Cardinality(PoppedPaths(Programs[k]) \cup Frontier(k))
    /\ Len(Programs[k].popped) = Cardinality(PoppedPaths(Programs[k]))

\* no path is pushed twice, and (n - 1)! complete states are popped
TreeSearch ==
    /\ \A k \in 1..3 : Programs[k].pc = "loop" => PushedOnce(k)
    /\ (AllDone /\ n >= 1) =>
           \A k \in 1..3 :
               /\ PushedOnce(k)
               /\ Cardinality(Goals(Programs[k])) = Factorial(n - 1)

\* C19: each of the three searches enqueues every path at most once, and on
\* n >= 1 distinct cities it has popped exactly (n - 1)! complete states when
\* its frontier is empty.
C19_TreeSearch == []TreeSearch

\* C19 witness: the three searches have returned on three or more cities,
\* each after popping more than one complete state.
C19_Witness ==
    /\ AllDone /\ n >= 3 /\ ~Malformed
    /\ \A k \in 1..3 :
           /\ Cardinality(Goals(Programs[k])) >= 2
           /\ Programs[k].pushes = Len(Programs[k].popped)
           /\ Programs[k].pushes > n + 1

\* the positions in the city list of the cities of a path
IndexSeq(path) == [i \in DOMAIN path |-> IndexOf(path[i])]

\* the tours from cities[1] through every other city back to cities[1]
AllTours == Completions(<<cities[1]>>)

\* a step of the breadth-first search removes the head of the queue and puts
\* the successors of that state behind the rest, in the order of the city list
BfsFifo(old, new) ==
    Len(new.popped) = Len(old.popped) + 1 =>
        /\ Last(new.popped) = <<old.queue[1][2], old.queue[1][3]>>
        /\ Len(new.queue) >= Len(old.queue) - 1
        /\ \A i \in 1..(Len(old.queue) - 1) : new.queue[i] = old.queue[i + 1]
        /\ \A i \in Len(old.queue)..Len(new.queue) :
               /\ Parent(new.queue[i][2]) = old.queue[1][2]
               /\ \A j \in (i + 1)..Len(new.queue) :
                      IndexOf(Last(new.queue[i][2])) < IndexOf(Last(new.queue[j][2]))

\* of the tours with the smallest bottleneck the one returned is first by
\* the positions of its cities in the city list
BfsReturnsFirstOptimum ==
    (bfs.pc = "done" /\ n >= 1 /\ NonNegative(distance_matrix)) =>
        /\ bfs.best_path \in AllTours
        /\ \A t \in AllTours :
               /\ bfs.min_max_jump <= Bottleneck(t)
               /\ Bottleneck(t) = bfs.min_max_jump =>
                      \/ t = bfs.best_path
                      \/ PathBefore(IndexSeq(bfs.best_path), IndexSeq(t))

\* C20: the breadth-first search pops its states in the order in which they
\* were enqueued and enqueues the successors of a state in the order of the
\* city list; of the complete tours with the smallest bottleneck it returns
\* the one whose sequence of city-list positions is lexicographically
\* smallest (weights non-negative).
C20_BfsLexSmallest ==
    /\ [][BfsFifo(bfs, bfs')]_vars
    /\ []BfsReturnsFirstOptimum

\* C20 witness: the breadth-first search has returned, on a city list that is
\* not in the order of the names, a tour that ties with a tour whose names
\* compare smaller.
C20_Witness ==
    /\ bfs.pc = "done" /\ n >= 3 /\ ~Malformed
    /\ bfs.min_max_jump > 0
    /\ \E t \in AllTours :
           /\ t # bfs.best_path
           /\ Bottleneck(t) = bfs.min_max_jump
           /\ PathBefore(t, bfs.best_path)
           /\ PathBefore(IndexSeq(bfs.best_path), IndexSeq(t))

====
